---- MODULE Spec2Model ----
(***************************************************************************)
(* A model of the jsonclasses class graph (cgraph.py), the context records *)
(* (ctx.py), the container validators (validators/), the tojson traversal  *)
(* that threads JCtx.entity_chain, and the class definition (cdef.py).     *)
(*                                                                         *)
(* The module holds several state machines over one set of variables.  The *)
(* variable `component` says which machine a behaviour runs; the variables *)
(* of the other machines keep the value Idle.                              *)
(***************************************************************************)
EXTENDS Integers, Sequences, FiniteSets, TLC

VARIABLES
    component,        \* which machine this behaviour runs
    graph_map,        \* CGraph._graph_map: graph name -> graph object
    initialized_map,  \* CGraph._initialized_map: graph name -> True
    heap,             \* the CGraph objects allocated so far, by identity
    ret,              \* what the last call returned or raised
    ctx_src,          \* the context record new() is called on
    ctx_kwargs,       \* the keyword arguments given to new()
    ctx_out,          \* the context record new() returned
    ctx_conv,         \* the context records tctx() and vctx() returned, in order
    val_validator,    \* the validator validate() is called on
    val_value,        \* the value given to validate()
    val_all_fields,   \* the all_fields argument of validate()
    val_result,       \* what validate() returned or raised
    rt_validator,     \* the ShapeValidator transform() and tojson() are called on
    rt_camelize_keys, \* the camelize_keys argument of both calls
    rt_value,         \* the mapping given to transform()
    rt_transformed,   \* what transform() returned
    rt_json,          \* what tojson() returned for rt_transformed
    ser_objects,      \* the objects to serialize: identity -> identities referenced
    ser_stack,        \* the tojson calls in progress, innermost last
    ser_output,       \* the JSON emitted so far, as a sequence of tokens
    ser_status,       \* "running", "done" or "RecursionError"
    cd_cls,           \* the declared class a Cdef is made for
    cd_jconf,         \* the configuration given to Cdef.__init__
    cd_self,          \* the Cdef object, NotConstructed before __init__
    cd_ret,           \* the last call on the Cdef, with what it returned or raised
    cd_resolves       \* how many times _resolve_ref_names ran

graphVars == <<graph_map, initialized_map, heap, ret>>

ctxVars == <<ctx_src, ctx_kwargs, ctx_out, ctx_conv>>

valVars == <<val_validator, val_value, val_all_fields, val_result>>

rtVars == <<rt_validator, rt_camelize_keys, rt_value, rt_transformed, rt_json>>

serVars == <<ser_objects, ser_stack, ser_output, ser_status>>

cdVars == <<cd_cls, cd_jconf, cd_self, cd_ret, cd_resolves>>

vars == <<component, graphVars, ctxVars, valVars, rtVars, serVars, cdVars>>

nonGraphVars == <<ctxVars, valVars, rtVars, serVars, cdVars>>

nonCtxVars == <<graphVars, valVars, rtVars, serVars, cdVars>>

nonValVars == <<graphVars, ctxVars, rtVars, serVars, cdVars>>

nonRtVars == <<graphVars, ctxVars, valVars, serVars, cdVars>>

nonSerVars == <<graphVars, ctxVars, valVars, rtVars, cdVars>>

nonCdVars == <<graphVars, ctxVars, valVars, rtVars, serVars>>

Idle == [kind |-> "idle"]

\* the variables of a machine that a behaviour does not run
GraphIdle == graph_map = Idle /\ initialized_map = Idle /\ heap = Idle /\ ret = Idle

CtxIdle ==
    /\ ctx_src = Idle /\ ctx_kwargs = Idle
    /\ ctx_out = Idle /\ ctx_conv = Idle

ValIdle ==
    /\ val_validator = Idle /\ val_value = Idle
    /\ val_all_fields = Idle /\ val_result = Idle

RtIdle ==
    /\ rt_validator = Idle /\ rt_camelize_keys = Idle /\ rt_value = Idle
    /\ rt_transformed = Idle /\ rt_json = Idle

SerIdle ==
    /\ ser_objects = Idle /\ ser_stack = Idle
    /\ ser_output = Idle /\ ser_status = Idle

CdIdle ==
    /\ cd_cls = Idle /\ cd_jconf = Idle /\ cd_self = Idle
    /\ cd_ret = Idle /\ cd_resolves = Idle

----------------------------------------------------------------------------
(* Python values and dicts.                                                *)

None == [kind |-> "None"]

Str(s) == [kind |-> "str", s |-> s]

Type(c) == [kind |-> "type", cls |-> c]

Bool(b) == [kind |-> "bool", b |-> b]

\* a reference to the object whose identity is id
Ref(id) == [kind |-> "object", id |-> id]

\* {} : a dict is a function whose domain is its key set
EmptyDict == [k \in {} |-> None]

\* d.get(k)
DictGet(d, k) == IF k \in DOMAIN d THEN d[k] ELSE None

\* d[k] = v
DictSet(d, k, v) == [x \in (DOMAIN d) \cup {k} |-> IF x = k THEN v ELSE d[x]]

\* bool(x) of the objects stored in the registries: no class here defines
\* __bool__ or __len__, so every object but None is true
Truthy(x) == x # None

----------------------------------------------------------------------------
(* The class graph: cgraph.py                                              *)

GraphNames == {"g1", "g2"}

MaxCls == 2

\* the declared JSON classes: MaxCls classes named "A", one named "B"
Classes ==
    {[name |-> "A", id |-> i] : i \in 1..MaxCls} \cup {[name |-> "B", id |-> 0]}

ClassNames == {c.name : c \in Classes}

\* Cdef.__init__ keeps the class and its __name__ (cdef.py 40-42)
CdefOf(c) == [name |-> c.name, cls |-> c]

Cdefs == {CdefOf(c) : c \in Classes}

\* the declared typed dict classes (two of one name) and the declared enum
DictClasses == {[name |-> "D", id |-> "d1"], [name |-> "D", id |-> "d2"]}

EnumClasses == {[name |-> "E", id |-> "e1"]}

\* the Config a graph builds for itself in __init__
DefaultConfig(name) ==
    [class_graph |-> name, camelize_json_keys |-> TRUE, strict_input |-> TRUE,
     key_transformer |-> "reference_key", validate_all_fields |-> FALSE,
     soft_delete |-> FALSE, abstract |-> FALSE, reset_all_fields |-> FALSE,
     on_create |-> <<>>, on_save |-> <<>>, on_delete |-> <<>>,
     can_create |-> <<>>, can_update |-> <<>>, can_delete |-> <<>>,
     can_read |-> <<>>]

\* super().__new__(cls): an object with no attribute set yet
NewObject == [class |-> "CGraph"]

\* a new dict object: {}
NewDict == [class |-> "dict", items |-> EmptyDict]

\* the identity of the next object allocated on the heap h
NextId(h) == Cardinality(DOMAIN h) + 1

\* mutant: __new__ without the lookup of the cached object
NewGraphMap_NoCache(name) == DictSet(graph_map, name, Ref(NextId(heap)))

\* CGraph.__new__: the map after the call
NewGraphMap(name) ==
    IF ~Truthy(DictGet(graph_map, name))
    THEN DictSet(graph_map, name, Ref(NextId(heap)))
    ELSE graph_map

\* CGraph.__new__: the heap after the call
NewHeap(name) ==
    IF ~Truthy(DictGet(graph_map, name))
    THEN DictSet(heap, NextId(heap), NewObject)
    ELSE heap

\* CGraph.__init__: the attributes it sets on self; the three registries are
\* the dict objects map_id, dict_id and enum_id
InitObject(name, map_id, dict_id, enum_id) ==
    [class |-> "CGraph",
     _name |-> name,
     _map |-> Ref(map_id),
     _dict_map |-> Ref(dict_id),
     _enum_map |-> Ref(enum_id),
     _default_config |-> DefaultConfig(name)]

\* mutant: __init__ without the check of _initialized_map
InitHeap_Always(h, self, name) ==
    [id \in (DOMAIN h) \cup (NextId(h)..(NextId(h) + 2)) |->
       IF id = self
       THEN InitObject(name, NextId(h), NextId(h) + 1, NextId(h) + 2)
       ELSE IF id \in DOMAIN h THEN h[id] ELSE NewDict]

\* CGraph.__init__ on the object `self`: the heap after the call.  Each {}
\* of lines 47-49 allocates a dict of its own.
InitHeap(h, self, name) ==
    IF DictGet(initialized_map, name) = Bool(TRUE)
    THEN h
    ELSE [id \in (DOMAIN h) \cup (NextId(h)..(NextId(h) + 2)) |->
            IF id = self
            THEN InitObject(name, NextId(h), NextId(h) + 1, NextId(h) + 2)
            ELSE IF id \in DOMAIN h THEN h[id] ELSE NewDict]

\* mutant: __init__ that never records the initialization
InitInitializedMap_Never(name) == initialized_map

\* CGraph.__init__: the initialization map after the call
InitInitializedMap(name) ==
    IF DictGet(initialized_map, name) = Bool(TRUE)
    THEN initialized_map
    ELSE DictSet(initialized_map, name, Bool(TRUE))

\* CGraph(name): __new__, then __init__ on the object __new__ returned
CGraphRequest(name) ==
    /\ component = "graph"
    /\ ret' = NewGraphMap(name)[name]
    /\ graph_map' = NewGraphMap(name)
    /\ heap' = InitHeap(NewHeap(name), NewGraphMap(name)[name].id, name)
    /\ initialized_map' = InitInitializedMap(name)
    /\ UNCHANGED <<component, nonGraphVars>>

\* the graph objects a caller can hold
Graphs == {o \in DOMAIN heap : heap[o].class = "CGraph"}

\* self._map, self._dict_map, self._enum_map: the contents of the registries
ClassMap(h, self) == h[h[self]._map.id].items

DictMap(h, self) == h[h[self]._dict_map.id].items

EnumMap(h, self) == h[h[self]._enum_map.id].items

\* the name a name_or_class argument stands for (isinstance(x, type))
NameOf(x) == IF x.kind = "type" THEN x.cls.name ELSE x.s

\* mutant: put that stores the class before looking for an existing one
PutMap_Overwrite(m, cdef) == DictSet(m, cdef.name, cdef)

\* CGraph.put: the class map after the call
PutMap(m, cdef) ==
    IF Truthy(DictGet(m, cdef.name)) THEN m ELSE DictSet(m, cdef.name, cdef)

\* CGraph.put: what the call returns or raises
PutRet(m, cdef) ==
    IF Truthy(DictGet(m, cdef.name))
    THEN [kind |-> "JSONClassRedefinitionException",
          new_cls |-> cdef.cls, exist_cls |-> DictGet(m, cdef.name).cls]
    ELSE None

put(self, cdef) ==
    /\ component = "graph"
    /\ self \in Graphs
    /\ ret' = PutRet(ClassMap(heap, self), cdef)
    /\ heap' = [heap EXCEPT
                  ![heap[self]._map.id].items = PutMap(ClassMap(heap, self), cdef)]
    /\ UNCHANGED <<component, graph_map, initialized_map, nonGraphVars>>

\* mutant: fetch that looks the name up with dict.get
FetchRet_Get(m, gname, x) ==
    IF NameOf(x) \in DOMAIN m THEN [kind |-> "cdef", cdef |-> m[NameOf(x)]] ELSE None

\* CGraph.fetch on the class map m of the graph named gname: what the call
\* returns or raises
FetchRet(m, gname, x) ==
    IF NameOf(x) \in DOMAIN m
    THEN [kind |-> "cdef", cdef |-> m[NameOf(x)]]
    ELSE [kind |-> "JSONClassNotFoundException",
          name |-> NameOf(x), graph |-> gname]

fetch(self, x) ==
    /\ component = "graph"
    /\ self \in Graphs
    /\ ret' = FetchRet(ClassMap(heap, self), heap[self]._name, x)
    /\ UNCHANGED <<component, graph_map, initialized_map, heap, nonGraphVars>>

\* a has that takes a class argument for registered only when the
\* registered class is that class
HasRet_SameClass(m, x) ==
    Bool(/\ DictGet(m, NameOf(x)) # None
         /\ x.kind = "type" => m[NameOf(x)].cls = x.cls)

\* CGraph.has
HasRet(m, x) == Bool(DictGet(m, NameOf(x)) # None)

has(self, x) ==
    /\ component = "graph"
    /\ self \in Graphs
    /\ ret' = HasRet(ClassMap(heap, self), x)
    /\ UNCHANGED <<component, graph_map, initialized_map, heap, nonGraphVars>>

\* CGraph.put_dict / put_enum: the registry after the call
PutTypeMap(m, c) ==
    IF Truthy(DictGet(m, c.name)) THEN m ELSE DictSet(m, c.name, c)

\* CGraph.put_dict / put_enum: the raise evaluates exist_def.cls on the
\* registered class itself, which has no attribute cls
PutTypeRet(m, c) ==
    IF Truthy(DictGet(m, c.name)) THEN [kind |-> "AttributeError"] ELSE None

put_dict(self, dict_class) ==
    /\ component = "graph"
    /\ self \in Graphs
    /\ ret' = PutTypeRet(DictMap(heap, self), dict_class)
    /\ heap' = [heap EXCEPT
                  ![heap[self]._dict_map.id].items =
                      PutTypeMap(DictMap(heap, self), dict_class)]
    /\ UNCHANGED <<component, graph_map, initialized_map, nonGraphVars>>

put_enum(self, enum_class) ==
    /\ component = "graph"
    /\ self \in Graphs
    /\ ret' = PutTypeRet(EnumMap(heap, self), enum_class)
    /\ heap' = [heap EXCEPT
                  ![heap[self]._enum_map.id].items =
                      PutTypeMap(EnumMap(heap, self), enum_class)]
    /\ UNCHANGED <<component, graph_map, initialized_map, nonGraphVars>>

\* CGraph.fetch_dict / fetch_enum on the registry m of the graph named gname
FetchTypeRet(m, gname, x) ==
    IF NameOf(x) \in DOMAIN m
    THEN [kind |-> "class", cls |-> m[NameOf(x)]]
    ELSE [kind |-> "JSONClassTypedDictNotFoundException",
          name |-> NameOf(x), graph |-> gname]

fetch_dict(self, x) ==
    /\ component = "graph"
    /\ self \in Graphs
    /\ ret' = FetchTypeRet(DictMap(heap, self), heap[self]._name, x)
    /\ UNCHANGED <<component, graph_map, initialized_map, heap, nonGraphVars>>

fetch_enum(self, x) ==
    /\ component = "graph"
    /\ self \in Graphs
    /\ ret' = FetchTypeRet(EnumMap(heap, self), heap[self]._name, x)
    /\ UNCHANGED <<component, graph_map, initialized_map, heap, nonGraphVars>>

\* CGraph.has_dict / has_enum
HasTypeRet(m, x) == Bool(DictGet(m, NameOf(x)) # None)

has_dict(self, x) ==
    /\ component = "graph"
    /\ self \in Graphs
    /\ ret' = HasTypeRet(DictMap(heap, self), x)
    /\ UNCHANGED <<component, graph_map, initialized_map, heap, nonGraphVars>>

has_enum(self, x) ==
    /\ component = "graph"
    /\ self \in Graphs
    /\ ret' = HasTypeRet(EnumMap(heap, self), x)
    /\ UNCHANGED <<component, graph_map, initialized_map, heap, nonGraphVars>>

\* the arguments the lookups are called with: a name or a class
ClassArgs == {Str(n) : n \in ClassNames} \cup {Type(c) : c \in Classes}

DictArgs == {Str("D")} \cup {Type(c) : c \in DictClasses}

EnumArgs == {Str("E")} \cup {Type(c) : c \in EnumClasses}

InitGraph ==
    /\ component = "graph"
    /\ graph_map = EmptyDict
    /\ initialized_map = EmptyDict
    /\ heap = EmptyDict
    /\ ret = Idle
    /\ CtxIdle /\ ValIdle /\ RtIdle /\ SerIdle /\ CdIdle

NextGraph ==
    \/ \E name \in GraphNames : CGraphRequest(name)
    \/ \E self \in Graphs, cdef \in Cdefs : put(self, cdef)
    \/ \E self \in Graphs, x \in ClassArgs : fetch(self, x)
    \/ \E self \in Graphs, x \in ClassArgs : has(self, x)
    \/ \E self \in Graphs, c \in DictClasses : put_dict(self, c)
    \/ \E self \in Graphs, x \in DictArgs : fetch_dict(self, x)
    \/ \E self \in Graphs, x \in DictArgs : has_dict(self, x)
    \/ \E self \in Graphs, c \in EnumClasses : put_enum(self, c)
    \/ \E self \in Graphs, x \in EnumArgs : fetch_enum(self, x)
    \/ \E self \in Graphs, x \in EnumArgs : has_enum(self, x)

SpecGraph == InitGraph /\ [][NextGraph]_vars

----------------------------------------------------------------------------
(* Claims about the class graph, checked under SpecGraph.                  *)

\* the name under which the graph object o was requested
RequestedName(o) == CHOOSE n \in DOMAIN graph_map : graph_map[n] = Ref(o)

\* the three registries of the graph object o on the heap h
Registries(h, o) == <<ClassMap(h, o), DictMap(h, o), EnumMap(h, o)>>

\* C1: CGraph(n) returns the identical graph object for n on every request,
\* whatever was requested or registered in between; the objects of two
\* different names are distinct, and so are their registries: a put, put_dict
\* or put_enum into one graph changes no registry of another graph.
C1_GraphSingleton ==
    /\ [](\A n1, n2 \in DOMAIN graph_map :
            n1 # n2 =>
              /\ graph_map[n1] # graph_map[n2]
              /\ {heap[graph_map[n1].id][f].id :
                    f \in {"_map", "_dict_map", "_enum_map"}}
                 \cap {heap[graph_map[n2].id][f].id :
                    f \in {"_map", "_dict_map", "_enum_map"}} = {})
    /\ [][/\ \A n \in DOMAIN graph_map :
               /\ n \in DOMAIN graph_map'
               /\ graph_map'[n] = graph_map[n]
               /\ CGraphRequest(n) => ret' = graph_map[n]
          /\ \A n \in GraphNames : CGraphRequest(n) => ret' = graph_map'[n]
          /\ \A self \in Graphs :
               (\/ \E cdef \in Cdefs : put(self, cdef)
                \/ \E c \in DictClasses : put_dict(self, c)
                \/ \E c \in EnumClasses : put_enum(self, c))
               => \A o \in Graphs \ {self} :
                    Registries(heap', o) = Registries(heap, o)]_vars

\* C1 witness: both graphs exist, "A" is registered in g1 only, and g1 was
\* requested again after that registration.
C1_Witness ==
    /\ DOMAIN graph_map = GraphNames
    /\ "A" \in DOMAIN ClassMap(heap, graph_map["g1"].id)
    /\ "A" \notin DOMAIN ClassMap(heap, graph_map["g2"].id)
    /\ ret = graph_map["g1"]

\* C2: put(cdef) on a graph that already holds a class named cdef.name raises
\* the redefinition error and leaves the class map as it was (the name still
\* maps to the first registered Cdef); on a graph that does not hold the name
\* it succeeds and stores cdef, whatever the other graphs hold.
C2_PutRedefinition ==
    [][\A self \in Graphs, cdef \in Cdefs :
         put(self, cdef) =>
           IF cdef.name \in DOMAIN ClassMap(heap, self)
           THEN /\ ret'.kind = "JSONClassRedefinitionException"
                /\ ClassMap(heap', self) = ClassMap(heap, self)
           ELSE /\ ret' = None
                /\ cdef.name \in DOMAIN ClassMap(heap', self)
                /\ ClassMap(heap', self)[cdef.name] = cdef]_vars

\* C2 witness: a put of a second class named "A" was refused by a graph that
\* keeps the first one, while both graphs hold a class named "A".
C2_Witness ==
    /\ ret.kind = "JSONClassRedefinitionException"
    /\ ret.new_cls # ret.exist_cls
    /\ DOMAIN graph_map = GraphNames
    /\ \A n \in GraphNames : "A" \in DOMAIN ClassMap(heap, graph_map[n].id)
    /\ \E n \in GraphNames :
         ClassMap(heap, graph_map[n].id)["A"].cls = ret.exist_cls

\* C3: fetch(name_or_class) of a name not registered in the graph raises the
\* class-not-found error carrying the requested name and the graph's name, and
\* returns nothing; of a registered name it returns the Cdef registered under
\* that name.
C3_FetchNotFound ==
    [][\A self \in Graphs, x \in ClassArgs :
         fetch(self, x) =>
           IF NameOf(x) \in DOMAIN ClassMap(heap, self)
           THEN ret' = [kind |-> "cdef",
                        cdef |-> ClassMap(heap, self)[NameOf(x)]]
           ELSE ret' = [kind |-> "JSONClassNotFoundException",
                        name |-> NameOf(x),
                        graph |-> RequestedName(self)]]_vars

\* C3 witness: a fetch of "B" from g2 raised not-found while g2 holds "A" and
\* g1 holds "B".
C3_Witness ==
    /\ ret = [kind |-> "JSONClassNotFoundException", name |-> "B", graph |-> "g2"]
    /\ DOMAIN graph_map = GraphNames
    /\ "A" \in DOMAIN ClassMap(heap, graph_map["g2"].id)
    /\ "B" \in DOMAIN ClassMap(heap, graph_map["g1"].id)

\* what fetch(name) returns on the graph object o of the heap h
Fetched(h, o, name) == FetchRet(ClassMap(h, o), h[o]._name, Str(name))

\* C4: a successful put(cdef) makes fetch(cdef.name) return cdef, and once
\* fetch(name) returns a Cdef on a graph it returns that Cdef in every later
\* state, whatever operation is taken: no class is removed or replaced.
C4_ClassesOnlyGrow ==
    [][/\ \A self \in Graphs, cdef \in Cdefs :
            (put(self, cdef) /\ ret' = None)
            => Fetched(heap', self, cdef.name) = [kind |-> "cdef", cdef |-> cdef]
       /\ \A o \in Graphs, cdef \in Cdefs :
            Fetched(heap, o, cdef.name) = [kind |-> "cdef", cdef |-> cdef]
            => /\ o \in Graphs'
               /\ Fetched(heap', o, cdef.name) = [kind |-> "cdef", cdef |-> cdef]
      ]_vars

\* C4 witness: a graph holds classes, a typed dict and an enum, a put into it
\* was refused and the other graph was created afterwards or before.
C4_Witness ==
    /\ DOMAIN graph_map = GraphNames
    /\ \E o \in Graphs :
         /\ DOMAIN ClassMap(heap, o) = ClassNames
         /\ DOMAIN DictMap(heap, o) # {}
         /\ DOMAIN EnumMap(heap, o) # {}
    /\ ret.kind = "cdef"

\* C5: the first request of a graph name initializes the graph (its name,
\* three empty registries, the default configuration); a later request of
\* the same name changes nothing: not the graph's name, registries or
\* configuration, nor any other object.
C5_InitOnce ==
    [][\A n \in GraphNames :
         CGraphRequest(n) =>
           IF n \in DOMAIN graph_map
           THEN /\ heap' = heap
                /\ graph_map' = graph_map
                /\ initialized_map' = initialized_map
           ELSE /\ heap'[ret'.id]._name = n
                /\ heap'[ret'.id]._default_config = DefaultConfig(n)
                /\ Registries(heap', ret'.id) = <<EmptyDict, EmptyDict, EmptyDict>>
                /\ \A o \in DOMAIN heap : heap'[o] = heap[o]]_vars

\* C5 witness: g1 was requested again while its three registries hold
\* entries.
C5_Witness ==
    /\ "g1" \in DOMAIN graph_map
    /\ ret = graph_map["g1"]
    /\ DOMAIN ClassMap(heap, ret.id) = ClassNames
    /\ DOMAIN DictMap(heap, ret.id) # {}
    /\ DOMAIN EnumMap(heap, ret.id) # {}

\* the errors a registry raises for a name it already holds
RedefinitionErrors ==
    {"JSONClassRedefinitionException",
     "JSONClassTypedDictRedefinitionException",
     "JSONClassEnumRedefinitionException"}

\* C18: put_dict (put_enum) of a type whose name the typed-dict (enum)
\* registry already holds raises the registry's redefinition error and
\* leaves the registry as it was; of a name the registry does not hold it
\* stores the type, which fetch_dict (fetch_enum) then returns.
C18_PutTypeRedefinition ==
    [][/\ \A self \in Graphs, c \in DictClasses :
            put_dict(self, c) =>
              IF c.name \in DOMAIN DictMap(heap, self)
              THEN /\ ret'.kind \in RedefinitionErrors
                   /\ DictMap(heap', self) = DictMap(heap, self)
              ELSE /\ ret' = None
                   /\ FetchTypeRet(DictMap(heap', self), heap'[self]._name,
                                   Str(c.name))
                        = [kind |-> "class", cls |-> c]
       /\ \A self \in Graphs, c \in EnumClasses :
            put_enum(self, c) =>
              IF c.name \in DOMAIN EnumMap(heap, self)
              THEN /\ ret'.kind \in RedefinitionErrors
                   /\ EnumMap(heap', self) = EnumMap(heap, self)
              ELSE /\ ret' = None
                   /\ FetchTypeRet(EnumMap(heap', self), heap'[self]._name,
                                   Str(c.name))
                        = [kind |-> "class", cls |-> c]]_vars

\* the errors a lookup raises for a name its registry does not hold
NotFoundErrors ==
    {"JSONClassNotFoundException", "JSONClassTypedDictNotFoundException"}

\* the result r of a has* call agrees with what the fetch* of the same
\* argument returns or raises, f
HasAgreesWithFetch(r, f, found) ==
    /\ r \in {Bool(TRUE), Bool(FALSE)}
    /\ r = Bool(TRUE) <=> f.kind = found
    /\ r = Bool(FALSE) <=> f.kind \in NotFoundErrors

\* C19: in every reachable state, has(x) returns a boolean and never
\* raises, true exactly when fetch(x) returns a Cdef and false exactly when
\* fetch(x) raises not-found, for x a name or a class; likewise has_dict
\* with fetch_dict and has_enum with fetch_enum; and no has* call changes a
\* registry.
C19_HasIffFetch ==
    /\ [](component = "graph" =>
            \A self \in Graphs :
              /\ \A x \in ClassArgs :
                   HasAgreesWithFetch(
                     HasRet(ClassMap(heap, self), x),
                     FetchRet(ClassMap(heap, self), heap[self]._name, x),
                     "cdef")
              /\ \A x \in DictArgs :
                   HasAgreesWithFetch(
                     HasTypeRet(DictMap(heap, self), x),
                     FetchTypeRet(DictMap(heap, self), heap[self]._name, x),
                     "class")
              /\ \A x \in EnumArgs :
                   HasAgreesWithFetch(
                     HasTypeRet(EnumMap(heap, self), x),
                     FetchTypeRet(EnumMap(heap, self), heap[self]._name, x),
                     "class"))
    /\ [][component = "graph" /\ ret' \in {Bool(TRUE), Bool(FALSE)} =>
            heap' = heap]_vars

\* C19 witness: a has* call returned False on a graph while one graph
\* holds a class, a typed dict and an enum and the other holds none.
C19_Witness ==
    /\ ret = Bool(FALSE)
    /\ DOMAIN graph_map = GraphNames
    /\ DOMAIN ClassMap(heap, graph_map["g1"].id) # {}
    /\ DOMAIN DictMap(heap, graph_map["g1"].id) # {}
    /\ DOMAIN EnumMap(heap, graph_map["g1"].id) # {}
    /\ Registries(heap, graph_map["g2"].id) = <<EmptyDict, EmptyDict, EmptyDict>>

----------------------------------------------------------------------------
(* The context records: ctx.py                                             *)

\* the fields of VCtx, in declaration order (ctx.py 54-68)
VCtxFields ==
    <<"value", "keypath_root", "root", "jconf_root", "keypath_owner", "owner",
      "jconf_owner", "keypath_parent", "parent", "fdef", "operator",
      "all_fields", "mgraph">>

\* the fields of TCtx (ctx.py 123-139)
TCtxFields ==
    <<"value", "keypath_root", "root", "jconf_root", "keypath_owner", "owner",
      "jconf_owner", "keypath_parent", "parent", "fdef", "operator",
      "all_fields", "dest", "fill_dest_blanks", "mgraph">>

\* the fields of JCtx (ctx.py 191-195)
JCtxFields == <<"value", "jconf", "fdef", "ignore_writeonly", "entity_chain">>

Range(seq) == {seq[i] : i \in DOMAIN seq}

FieldsOf(class) ==
    CASE class = "VCtx" -> Range(VCtxFields)
      [] class = "TCtx" -> Range(TCtxFields)
      [] class = "JCtx" -> Range(JCtxFields)

\* the fields declared with a default, and the default
HasDefault(class, f) ==
    \/ f \in {"fdef", "operator", "all_fields", "mgraph", "dest", "fill_dest_blanks"}
       /\ class \in {"VCtx", "TCtx"}
    \/ f \in {"fdef", "ignore_writeonly", "entity_chain"} /\ class = "JCtx"

DefaultOf(class, f) ==
    CASE f \in {"fdef", "operator", "all_fields", "dest"} -> None
      [] f = "fill_dest_blanks" -> Bool(TRUE)
      [] f = "ignore_writeonly" -> Bool(FALSE)
      [] f = "mgraph" -> [kind |-> "MGraph", id |-> 0]
      [] f = "entity_chain" -> [kind |-> "list", items |-> <<>>]

\* the NamedTuple constructor: the fields given, the defaults for the rest
Construct(class, given) ==
    [class |-> class,
     fields |-> [f \in FieldsOf(class) |->
                   IF f \in DOMAIN given THEN given[f] ELSE DefaultOf(class, f)]]

\* VCtx.new(**kwargs)
VCtxNew(self, kwargs) ==
    Construct("VCtx",
        [f \in Range(VCtxFields) |->
           IF f \in DOMAIN kwargs THEN kwargs[f] ELSE self.fields[f]])

\* TCtx.new(**kwargs): the constructor call names neither dest nor
\* fill_dest_blanks
TCtxNew(self, kwargs) ==
    Construct("TCtx",
        [f \in Range(TCtxFields) \ {"dest", "fill_dest_blanks"} |->
           IF f \in DOMAIN kwargs THEN kwargs[f] ELSE self.fields[f]])

\* a new() that keeps the entity chain of the context it is called on
JCtxNew_KeepChain(self, kwargs) ==
    Construct("JCtx",
        [f \in Range(JCtxFields) |->
           IF f \in DOMAIN kwargs /\ f # "entity_chain"
           THEN kwargs[f] ELSE self.fields[f]])

\* JCtx.new(**kwargs)
JCtxNew(self, kwargs) ==
    Construct("JCtx",
        [f \in Range(JCtxFields) |->
           IF f \in DOMAIN kwargs THEN kwargs[f] ELSE self.fields[f]])

\* ctx.new(**kwargs) on a validating context
VNew ==
    /\ component = "ctx"
    /\ ctx_src.class = "VCtx"
    /\ ctx_out = Idle
    /\ ctx_out' = VCtxNew(ctx_src, ctx_kwargs)
    /\ UNCHANGED <<component, nonCtxVars, ctx_src, ctx_kwargs, ctx_conv>>

\* ctx.new(**kwargs) on a transforming context
TNew ==
    /\ component = "ctx"
    /\ ctx_src.class = "TCtx"
    /\ ctx_out = Idle
    /\ ctx_out' = TCtxNew(ctx_src, ctx_kwargs)
    /\ UNCHANGED <<component, nonCtxVars, ctx_src, ctx_kwargs, ctx_conv>>

\* ctx.new(**kwargs) on a tojson context
JNew ==
    /\ component = "ctx"
    /\ ctx_src.class = "JCtx"
    /\ ctx_out = Idle
    /\ ctx_out' = JCtxNew(ctx_src, ctx_kwargs)
    /\ UNCHANGED <<component, nonCtxVars, ctx_src, ctx_kwargs, ctx_conv>>

\* the fields VCtx and TCtx share: those of VCtx
SharedFields == Range(VCtxFields)

\* a tctx() that leaves mgraph to the default of the constructor
VCtxTctx_DefaultMgraph(self) ==
    Construct("TCtx", [f \in SharedFields \ {"mgraph"} |-> self.fields[f]])

\* VCtx.tctx(): the constructor is given the thirteen fields of VCtx
VCtxTctx(self) ==
    Construct("TCtx", [f \in SharedFields |-> self.fields[f]])

\* TCtx.vctx()
TCtxVctx(self) ==
    Construct("VCtx", [f \in SharedFields |-> self.fields[f]])

\* how many conversions follow one another
MaxConv == 2

\* the context the next conversion is called on: the source, or what the
\* last conversion returned
Receiver == IF ctx_conv = <<>> THEN ctx_src ELSE ctx_conv[Len(ctx_conv)]

\* ctx.tctx() on a validating context
tctx ==
    /\ component = "ctx"
    /\ Len(ctx_conv) < MaxConv
    /\ Receiver.class = "VCtx"
    /\ ctx_conv' = Append(ctx_conv, VCtxTctx(Receiver))
    /\ UNCHANGED <<component, nonCtxVars, ctx_src, ctx_kwargs, ctx_out>>

\* ctx.vctx() on a transforming context
vctx ==
    /\ component = "ctx"
    /\ Len(ctx_conv) < MaxConv
    /\ Receiver.class = "TCtx"
    /\ ctx_conv' = Append(ctx_conv, TCtxVctx(Receiver))
    /\ UNCHANGED <<component, nonCtxVars, ctx_src, ctx_kwargs, ctx_out>>

\* how many fields of a source context hold the second of their two values
MaxAlt == 1

\* how many keyword arguments a call of new() gets
MaxKw == 1

\* the second value a field can hold, beside BaseValue
AltValue(class, f) ==
    CASE f = "all_fields" -> Bool(TRUE)
      [] f = "fill_dest_blanks" -> Bool(FALSE)
      [] f = "ignore_writeonly" -> Bool(TRUE)
      [] f = "entity_chain" -> [kind |-> "list", items |-> <<"id1">>]
      [] OTHER -> [kind |-> "object", of |-> f, n |-> 1]

BaseValue(class, f) ==
    IF HasDefault(class, f) THEN DefaultOf(class, f)
    ELSE [kind |-> "object", of |-> f, n |-> 0]

SmallSubsets(S, n) == {K \in SUBSET S : Cardinality(K) <= n}

\* the context records new() is called on
Sources(class) ==
    {Construct(class,
        [f \in FieldsOf(class) |->
           IF f \in A THEN AltValue(class, f) ELSE BaseValue(class, f)]) :
       A \in SmallSubsets(FieldsOf(class), MaxAlt)}

\* the keyword arguments new() is called with
Kwargs(class) ==
    UNION {[K -> BOOLEAN] : K \in SmallSubsets(FieldsOf(class), MaxKw)}

InitCtx ==
    /\ component = "ctx"
    /\ GraphIdle /\ ValIdle /\ RtIdle /\ SerIdle /\ CdIdle
    /\ \E class \in {"VCtx", "TCtx", "JCtx"} :
         /\ ctx_src \in Sources(class)
         /\ \E k \in Kwargs(class) :
              ctx_kwargs = [f \in DOMAIN k |->
                              IF k[f] THEN AltValue(class, f)
                              ELSE BaseValue(class, f)]
    /\ ctx_out = Idle
    /\ ctx_conv = <<>>

NextCtx == VNew \/ TNew \/ JNew \/ tctx \/ vctx

SpecCtx == InitCtx /\ [][NextCtx]_vars

\* C6: new() of VCtx, TCtx and JCtx returns a context of the same variant
\* that holds the overriding value in every field given as a keyword and the
\* source's value in every other field of the variant.
C6_NewCopiesFields ==
    ctx_out # Idle =>
      /\ ctx_out.class = ctx_src.class
      /\ \A f \in FieldsOf(ctx_src.class) :
           ctx_out.fields[f] =
             IF f \in DOMAIN ctx_kwargs THEN ctx_kwargs[f] ELSE ctx_src.fields[f]

\* the context the i-th conversion was called on
ConvertedFrom(i) == IF i = 1 THEN ctx_src ELSE ctx_conv[i - 1]

\* C17: tctx() of a VCtx returns a TCtx that holds the source's value in
\* each of the thirteen shared fields, with dest None and fill_dest_blanks
\* True; vctx() of a TCtx returns a VCtx that holds the TCtx's value in each
\* shared field; so v.tctx().vctx() equals v.
C17_ConversionsKeepSharedFields ==
    component = "ctx" =>
      \A i \in 1..Len(ctx_conv) :
        LET from == ConvertedFrom(i)
            to == ctx_conv[i]
        IN /\ \A f \in SharedFields : to.fields[f] = from.fields[f]
           /\ from.class = "VCtx" =>
                /\ to.class = "TCtx"
                /\ to.fields["dest"] = None
                /\ to.fields["fill_dest_blanks"] = Bool(TRUE)
           /\ from.class = "TCtx" => to.class = "VCtx"
           /\ i > 1 /\ to.class = "VCtx" => to = ConvertedFrom(i - 1)

\* C17 witness: a VCtx whose mgraph is not the default was converted with
\* tctx() and back with vctx(), and the result is the VCtx.
C17_Witness ==
    /\ component = "ctx"
    /\ ctx_src.class = "VCtx"
    /\ ctx_src.fields["mgraph"] = AltValue("VCtx", "mgraph")
    /\ Len(ctx_conv) = 2
    /\ ctx_conv[1].class = "TCtx"
    /\ ctx_conv[1].fields["fill_dest_blanks"] = Bool(TRUE)
    /\ ctx_conv[2] = ctx_src

----------------------------------------------------------------------------
(* The validators: validators/length_validator.py, list_of_validator.py,   *)
(* shape_validator.py, nullable_validator.py.  A Python str is the         *)
(* sequence of its characters; validate() returns None or raises.          *)

PyInt(n) == [kind |-> "int", n |-> n]

List(items) == [kind |-> "list", items |-> items]

\* a dict with its keys in insertion order
Dict(keys, items) == [kind |-> "dict", keys |-> keys, items |-> items]

\* len(value)
PyLen(value) ==
    CASE value.kind = "str" -> Len(value.s)
      [] value.kind = "list" -> Len(value.items)
      [] value.kind = "dict" -> Len(value.keys)

\* raise ValidationException(keypath_messages, root)
ValidationException(keypath_messages) ==
    [kind |-> "ValidationException", keypath_messages |-> keypath_messages]

TypeError == [kind |-> "TypeError"]

\* the dict { key_path: message }
Message(key_path, message) == [p \in {key_path} |-> message]

\* dict.update
DictUpdate(d, e) ==
    [k \in (DOMAIN d) \cup (DOMAIN e) |-> IF k \in DOMAIN e THEN e[k] ELSE d[k]]

\* utils.keypath(key_path, key): the key path one level down
keypath(key_path, key) == Append(key_path, key)

\* str(i) of a list index
IndexKey(i) == <<ToString(i)>>

\* a types object carrying a validator, and a plain type without one
TypesWith(validator) == [kind |-> "types", validator |-> validator]

PlainType == [kind |-> "type", name |-> "object"]

\* utils.default_validator_for_type(t) of a plain type that has no default
\* validator
default_validator_for_type(t) == None

\* t.validator if hasattr(t, 'validator') else default_validator_for_type(t)
ValidatorOf(t) ==
    IF t.kind = "types" THEN t.validator ELSE default_validator_for_type(t)

\* LengthValidator.__init__
LengthValidator(minlength, maxlength) ==
    [class |-> "LengthValidator",
     minlength |-> minlength,
     maxlength |-> IF maxlength # None THEN maxlength.n ELSE minlength]

NullableValidator == [class |-> "NullableValidator"]

ListOfValidator(types) == [class |-> "ListOfValidator", types |-> types]

\* ShapeValidator.__init__: types is a dict, keys in declaration order
ShapeValidator(keys, items) ==
    [class |-> "ShapeValidator", types |-> Dict(keys, items)]

\* LengthValidator.validate.  The condition reads
\*   (value is not None and len(value) > maxlength) or len(value) < minlength
\* so a None value reaches len(None).
LengthValidate(self, value, key_path) ==
    IF value # None /\ PyLen(value) > self.maxlength
    THEN ValidationException(Message(key_path,
            IF self.minlength # self.maxlength THEN "length range" ELSE "length"))
    ELSE IF value = None
    THEN TypeError
    ELSE IF PyLen(value) < self.minlength
    THEN ValidationException(Message(key_path,
            IF self.minlength # self.maxlength THEN "length range" ELSE "length"))
    ELSE None

RECURSIVE Validate(_, _, _, _)
RECURSIVE ListOfLoop(_, _, _, _, _)
RECURSIVE ShapeLoop(_, _, _, _, _, _)

\* ListOfValidator.validate: the loop from element i on.  What an element's
\* validator raises leaves the loop.
ListOfLoop(self, value, key_path, all_fields, i) ==
    IF i > Len(value.items)
    THEN None
    ELSE LET validator == ValidatorOf(self.types)
             r == IF self.types.kind = "types" \/ Truthy(validator)
                  THEN Validate(validator, value.items[i],
                                keypath(key_path, IndexKey(i - 1)), all_fields)
                  ELSE None
         IN IF r # None
            THEN r
            ELSE ListOfLoop(self, value, key_path, all_fields, i + 1)

\* ListOfValidator.validate
ListOfValidate(self, value, key_path, all_fields) ==
    IF value # None /\ value.kind # "list"
    THEN ValidationException(Message(key_path, "should be a list"))
    ELSE IF value = None
    THEN TypeError
    ELSE ListOfLoop(self, value, key_path, all_fields, 1)

\* ShapeValidator.validate: the loop from the i-th key of types on
ShapeLoop(self, value, key_path, all_fields, i, keypath_messages) ==
    IF i > Len(self.types.keys)
    THEN IF Cardinality(DOMAIN keypath_messages) > 0
         THEN ValidationException(keypath_messages)
         ELSE None
    ELSE IF value = None
    THEN TypeError
    ELSE LET k == self.types.keys[i]
             value_at_key == DictGet(value.items, k)
             validator == ValidatorOf(self.types.items[k])
             r == IF Truthy(validator)
                  THEN Validate(validator, value_at_key,
                                keypath(key_path, k), all_fields)
                  ELSE None
         IN IF r.kind = "ValidationException"
            THEN IF all_fields
                 THEN ShapeLoop(self, value, key_path, all_fields, i + 1,
                                DictUpdate(keypath_messages, r.keypath_messages))
                 ELSE r
            ELSE IF r # None
            THEN r
            ELSE ShapeLoop(self, value, key_path, all_fields, i + 1,
                           keypath_messages)

\* ShapeValidator.validate
ShapeValidate(self, value, key_path, all_fields) ==
    IF value # None /\ value.kind # "dict"
    THEN ValidationException(Message(key_path, "should be a dict"))
    ELSE ShapeLoop(self, value, key_path, all_fields, 1, EmptyDict)

\* validator.validate(value, key_path, root, all_fields), by the class of
\* the validator
Validate(validator, value, key_path, all_fields) ==
    CASE validator.class = "LengthValidator" ->
           LengthValidate(validator, value, key_path)
      [] validator.class = "ListOfValidator" ->
           ListOfValidate(validator, value, key_path, all_fields)
      [] validator.class = "ShapeValidator" ->
           ShapeValidate(validator, value, key_path, all_fields)
      [] validator.class = "NullableValidator" -> None

\* the key path validate() is called with at the top
RootKeyPath == <<>>

LengthValidatorValidate ==
    /\ component = "validate"
    /\ val_validator.class = "LengthValidator"
    /\ val_result = Idle
    /\ val_result' = LengthValidate(val_validator, val_value, RootKeyPath)
    /\ UNCHANGED <<component, nonValVars, val_validator, val_value, val_all_fields>>

ListOfValidatorValidate ==
    /\ component = "validate"
    /\ val_validator.class = "ListOfValidator"
    /\ val_result = Idle
    /\ val_result' =
         ListOfValidate(val_validator, val_value, RootKeyPath, val_all_fields)
    /\ UNCHANGED <<component, nonValVars, val_validator, val_value, val_all_fields>>

ShapeValidatorValidate ==
    /\ component = "validate"
    /\ val_validator.class = "ShapeValidator"
    /\ val_result = Idle
    /\ val_result' =
         ShapeValidate(val_validator, val_value, RootKeyPath, val_all_fields)
    /\ UNCHANGED <<component, nonValVars, val_validator, val_value, val_all_fields>>

\* the longest str, the longest list and the largest shape given to validate()
MaxStrLen == 3

MaxListLen == 3

MaxFields == 3

\* the str of n characters
StrOfLen(n) == Str([i \in 1..n |-> "x"])

\* LengthValidator(m) and LengthValidator(m, x) for the lengths below MaxStrLen
LengthValidators ==
    {LengthValidator(m, x) :
       m \in 0..(MaxStrLen - 1), x \in {None} \cup {PyInt(n) : n \in 0..(MaxStrLen - 1)}}

\* types.str.length(1, 2)
LengthTypes == TypesWith(LengthValidator(1, PyInt(2)))

\* the field types of the shapes and the element types of the lists
FieldTypes ==
    {LengthTypes,
     TypesWith(NullableValidator),
     TypesWith(ListOfValidator(LengthTypes)),
     TypesWith(ShapeValidator(<< <<"x">> >>, [k \in {<<"x">>} |-> LengthTypes]))}

FieldKeys == << <<"a">>, <<"b">>, <<"c">>, <<"d">> >>

\* the values of the fields
FieldValues ==
    {None, StrOfLen(1), StrOfLen(3),
     List(<<StrOfLen(1)>>),
     List(<<StrOfLen(3), StrOfLen(1), StrOfLen(3)>>),
     Dict(<< <<"x">> >>, [k \in {<<"x">>} |-> StrOfLen(3)])}

\* the sequence s without its elements that are not in S, order kept
RECURSIVE Filter(_, _)
Filter(s, S) ==
    IF s = <<>> THEN <<>>
    ELSE IF Head(s) \in S THEN <<Head(s)>> \o Filter(Tail(s), S)
    ELSE Filter(Tail(s), S)

\* the shapes of n fields, and the mappings given to them
ShapesOf(n) ==
    {ShapeValidator(SubSeq(FieldKeys, 1, n),
                    [k \in Range(SubSeq(FieldKeys, 1, n)) |-> t[k]]) :
       t \in [Range(SubSeq(FieldKeys, 1, n)) -> FieldTypes]}

MappingsOf(n) ==
    UNION {{Dict(Filter(SubSeq(FieldKeys, 1, n), K), items) :
              items \in [K -> FieldValues]} :
             K \in SUBSET Range(SubSeq(FieldKeys, 1, n))}

\* the lists of at most n elements
ListsOf(n) ==
    UNION {{List(items) : items \in [1..l -> {None, StrOfLen(1), StrOfLen(3)}]} :
             l \in 0..n}

InitValidate ==
    /\ component = "validate"
    /\ GraphIdle /\ CtxIdle /\ RtIdle /\ SerIdle /\ CdIdle
    /\ val_all_fields \in BOOLEAN
    /\ val_result = Idle
    /\ \/ /\ val_validator \in LengthValidators
          /\ val_value \in {None} \cup {StrOfLen(n) : n \in 0..MaxStrLen}
       \/ /\ val_validator \in
               {ListOfValidator(t) : t \in FieldTypes \cup {PlainType}}
          /\ val_value \in {None, StrOfLen(1)} \cup ListsOf(MaxListLen)
       \/ \E n \in 0..MaxFields :
            /\ val_validator \in ShapesOf(n)
            /\ val_value \in {None, StrOfLen(1)} \cup MappingsOf(n)

NextValidate ==
    \/ LengthValidatorValidate
    \/ ListOfValidatorValidate
    \/ ShapeValidatorValidate

SpecValidate == InitValidate /\ [][NextValidate]_vars

\* the keys of the shape whose own validator raises a validation failure on
\* the value the mapping has for them
InvalidKeys(self, value, all_fields) ==
    {k \in Range(self.types.keys) :
       Validate(ValidatorOf(self.types.items[k]), DictGet(value.items, k),
                RootKeyPath, all_fields).kind = "ValidationException"}

\* the first segments of the key paths of a message map
ReportedKeys(keypath_messages) == {p[1] : p \in DOMAIN keypath_messages}

\* C7: ShapeValidator.validate on a mapping with two independently invalid
\* shape keys raises a validation failure; with all_fields false its message
\* map has only key paths of the first invalid key in declaration order, with
\* all_fields true it has the key paths of both invalid keys.
C7_ShapeFailFastAndBatch ==
    ( /\ component = "validate"
      /\ val_result # Idle
      /\ val_validator.class = "ShapeValidator"
      /\ val_value # None
      /\ val_value.kind = "dict"
      /\ Cardinality(InvalidKeys(val_validator, val_value, val_all_fields)) = 2 )
    => /\ val_result.kind = "ValidationException"
       /\ LET invalid == InvalidKeys(val_validator, val_value, val_all_fields)
              first == Head(Filter(val_validator.types.keys, invalid))
          IN ReportedKeys(val_result.keypath_messages) =
               IF val_all_fields THEN invalid ELSE {first}

\* the indices of the list whose element the element validator alone rejects
InvalidIndices(self, value, all_fields) ==
    {i \in 1..Len(value.items) :
       /\ Truthy(ValidatorOf(self.types))
       /\ Validate(ValidatorOf(self.types), value.items[i],
                   RootKeyPath, all_fields).kind = "ValidationException"}

\* C8: ListOfValidator.validate with all_fields true on a list with invalid
\* elements at two or more indices raises one validation failure whose message
\* map has a key path (the index under the list's key path) for every invalid
\* element.
C8_ListBatchCollectsAll ==
    ( /\ component = "validate"
      /\ val_result # Idle
      /\ val_validator.class = "ListOfValidator"
      /\ val_all_fields
      /\ val_value # None
      /\ val_value.kind = "list"
      /\ Cardinality(InvalidIndices(val_validator, val_value, TRUE)) >= 2 )
    => /\ val_result.kind = "ValidationException"
       /\ \A i \in InvalidIndices(val_validator, val_value, TRUE) :
            IndexKey(i - 1) \in ReportedKeys(val_result.keypath_messages)

\* C20: validate of a ListOfValidator or a ShapeValidator on the value None
\* returns normally, raising neither a validation failure nor another
\* error, with all_fields false and with all_fields true.
C20_ContainersAcceptNone ==
    ( /\ component = "validate"
      /\ val_result # Idle
      /\ val_validator.class \in {"ListOfValidator", "ShapeValidator"}
      /\ val_value = None )
    => val_result = None

\* C21: validate of a LengthValidator raises a validation failure keyed by
\* key_path exactly when the value is not None and its length is greater
\* than maxlength or less than minlength (maxlength being minlength when
\* not given), and returns normally for None and for every value whose
\* length lies in [minlength, maxlength].
C21_LengthOutOfRangeFails ==
    ( /\ component = "validate"
      /\ val_result # Idle
      /\ val_validator.class = "LengthValidator" )
    => IF /\ val_value # None
          /\ \/ PyLen(val_value) > val_validator.maxlength
             \/ PyLen(val_value) < val_validator.minlength
       THEN /\ val_result.kind = "ValidationException"
            /\ DOMAIN val_result.keypath_messages = {RootKeyPath}
       ELSE val_result = None

----------------------------------------------------------------------------
(* ShapeValidator.transform and ShapeValidator.tojson with the key         *)
(* conversions of inflection they call: shape_validator.py 41-85.          *)

LowerChars == {"a"}

UpperChars == {"A"}

Digits == {"0"}

\* str.upper and str.lower of one character
Upper(c) == IF c = "a" THEN "A" ELSE c

Lower(c) == IF c = "A" THEN "a" ELSE c

\* re.sub(r"(?:^|_)(.)", lambda m: m.group(1).upper(), string) from position
\* i > 1 on: an underscore and the character after it become that character
\* in upper case
RECURSIVE CamelizeFrom(_, _)
CamelizeFrom(string, i) ==
    IF i > Len(string) THEN <<>>
    ELSE IF string[i] = "_" /\ i < Len(string)
    THEN <<Upper(string[i + 1])>> \o CamelizeFrom(string, i + 2)
    ELSE <<string[i]>> \o CamelizeFrom(string, i + 1)

\* inflection.camelize(string): the match at the start of the string takes
\* the first character, whatever it is
CamelizeUpper(string) ==
    IF string = <<>> THEN <<>>
    ELSE <<Upper(string[1])>> \o CamelizeFrom(string, 2)

\* inflection.camelize(string, uppercase_first_letter), string not empty:
\* string[0].lower() + camelize(string)[1:]
camelize(string, uppercase_first_letter) ==
    IF uppercase_first_letter THEN CamelizeUpper(string)
    ELSE <<Lower(string[1])>> \o Tail(CamelizeUpper(string))

\* re.sub(r"([A-Z]+)([A-Z][a-z])", r'\1_\2', word): an underscore goes before
\* the last capital of a run of capitals that a lower-case letter follows
RECURSIVE SplitCapitals(_, _)
SplitCapitals(word, p) ==
    IF p > Len(word) THEN <<>>
    ELSE (IF /\ p > 1 /\ p < Len(word)
             /\ word[p - 1] \in UpperChars /\ word[p] \in UpperChars
             /\ word[p + 1] \in LowerChars
          THEN <<"_">> ELSE <<>>)
         \o <<word[p]>> \o SplitCapitals(word, p + 1)

\* re.sub(r"([a-z\d])([A-Z])", r'\1_\2', word)
RECURSIVE SplitWords(_, _)
SplitWords(word, p) ==
    IF p > Len(word) THEN <<>>
    ELSE (IF /\ p > 1
             /\ word[p - 1] \in LowerChars \cup Digits /\ word[p] \in UpperChars
          THEN <<"_">> ELSE <<>>)
         \o <<word[p]>> \o SplitWords(word, p + 1)

\* word.replace("-", "_").lower()
DashesAndLower(word) ==
    [p \in 1..Len(word) |-> IF word[p] = "-" THEN "_" ELSE Lower(word[p])]

\* inflection.underscore(word)
underscore(word) ==
    DashesAndLower(SplitWords(SplitCapitals(word, 1), 1))

\* retval[k] = v on a dict that keeps insertion order
DictPut(d, k, v) ==
    Dict(IF k \in Range(d.keys) THEN d.keys ELSE Append(d.keys, k),
         DictSet(d.items, k, v))

\* list.remove(x)
RECURSIVE ListRemove(_, _)
ListRemove(list, x) ==
    IF list = <<>> THEN <<>>
    ELSE IF Head(list) = x THEN Tail(list)
    ELSE <<Head(list)>> \o ListRemove(Tail(list), x)

\* for k in unused_keys: retval[k] = None
RECURSIVE FillUnused(_, _)
FillUnused(unused_keys, retval) ==
    IF unused_keys = <<>> THEN retval
    ELSE FillUnused(Tail(unused_keys), DictPut(retval, Head(unused_keys), None))

RECURSIVE Transform(_, _, _, _)
RECURSIVE TransformLoop(_, _, _, _, _, _, _)
RECURSIVE ToJSON(_, _, _)
RECURSIVE ToJSONLoop(_, _, _, _, _)

\* ShapeValidator.transform: the loop from the i-th item of value on
TransformLoop(self, value, camelize_keys, key, i, unused_keys, retval) ==
    IF i > Len(value.keys)
    THEN FillUnused(unused_keys, retval)
    ELSE LET k == value.keys[i]
             field_value == value.items[k]
             new_key == IF camelize_keys THEN underscore(k) ELSE k
         IN IF new_key \in Range(unused_keys)
            THEN LET validator == ValidatorOf(self.types.items[new_key])
                     v == IF Truthy(validator)
                          THEN Transform(validator, field_value, camelize_keys,
                                         keypath(key, new_key))
                          ELSE field_value
                 IN IF v = TypeError
                    THEN v
                    ELSE TransformLoop(self, value, camelize_keys, key, i + 1,
                                       ListRemove(unused_keys, new_key),
                                       DictPut(retval, new_key, v))
            ELSE TransformLoop(self, value, camelize_keys, key, i + 1,
                               unused_keys, retval)

\* a transform that looks the keys of value up as they are
ShapeTransform_RawKeys(self, value, camelize_keys, key) ==
    IF value = None THEN None
    ELSE IF value.kind # "dict" THEN value
    ELSE TransformLoop(self, value, FALSE, key, 1, self.types.keys,
                       Dict(<<>>, EmptyDict))

\* ShapeValidator.transform
ShapeTransform(self, value, camelize_keys, key) ==
    IF value = None THEN None
    ELSE IF value.kind # "dict" THEN value
    ELSE TransformLoop(self, value, camelize_keys, key, 1, self.types.keys,
                       Dict(<<>>, EmptyDict))

\* validator.transform(field_value, camelize_keys, key): the transform of
\* Validator, which the other validators inherit, takes two more parameters
Transform(validator, value, camelize_keys, key) ==
    IF validator.class = "ShapeValidator"
    THEN ShapeTransform(validator, value, camelize_keys, key)
    ELSE TypeError

\* ShapeValidator.tojson: the loop from the i-th key of types on
ToJSONLoop(self, value, camelize_keys, i, retval) ==
    IF i > Len(self.types.keys)
    THEN retval
    ELSE LET k == self.types.keys[i]
             key == IF camelize_keys THEN camelize(k, FALSE) ELSE k
             value_at_key == DictGet(value.items, k)
             validator == ValidatorOf(self.types.items[k])
         IN ToJSONLoop(self, value, camelize_keys, i + 1,
                       DictPut(retval, key,
                               IF Truthy(validator)
                               THEN ToJSON(validator, value_at_key, camelize_keys)
                               ELSE value_at_key))

\* ShapeValidator.tojson
ShapeToJSON(self, value, camelize_keys) ==
    IF value = None THEN None
    ELSE IF value.kind # "dict" THEN value
    ELSE ToJSONLoop(self, value, camelize_keys, 1, Dict(<<>>, EmptyDict))

\* validator.tojson(value_at_key, camelize_keys): Validator.tojson returns
\* the value
ToJSON(validator, value, camelize_keys) ==
    IF validator.class = "ShapeValidator"
    THEN ShapeToJSON(validator, value, camelize_keys)
    ELSE value

ShapeValidatorTransform ==
    /\ component = "roundtrip"
    /\ rt_transformed = Idle
    /\ rt_transformed' =
         ShapeTransform(rt_validator, rt_value, rt_camelize_keys, <<>>)
    /\ UNCHANGED <<component, nonRtVars, rt_validator, rt_camelize_keys,
                   rt_value, rt_json>>

ShapeValidatorToJSON ==
    /\ component = "roundtrip"
    /\ rt_transformed # Idle
    /\ rt_json = Idle
    /\ rt_json' = ShapeToJSON(rt_validator, rt_transformed, rt_camelize_keys)
    /\ UNCHANGED <<component, nonRtVars, rt_validator, rt_camelize_keys,
                   rt_value, rt_transformed>>

\* the characters the keys of a shape have together, at most
MaxShapeChars == 4

Alphabet == {"a", "A", "_"}

\* the keys of 1 to n characters
ShapeKeys(n) == UNION {[1..l -> Alphabet] : l \in 1..n}

\* the sequences of distinct keys that have at most n characters together
RECURSIVE KeySeqs(_)
KeySeqs(n) ==
    {<<>>} \cup
    UNION {{<<k>> \o q : q \in {r \in KeySeqs(n - Len(k)) : k \notin Range(r)}} :
             k \in ShapeKeys(n)}

\* the shapes over these keys, in every declaration order, all of whose
\* fields have a type without validator
RoundTripShapes ==
    {ShapeValidator(keys, [k \in Range(keys) |-> PlainType]) :
       keys \in KeySeqs(MaxShapeChars)}

\* the sequence s without the later occurrences of its elements
RECURSIVE Distinct(_)
Distinct(s) ==
    IF s = <<>> THEN <<>>
    ELSE LET d == Distinct(SubSeq(s, 1, Len(s) - 1))
         IN IF s[Len(s)] \in Range(d) THEN d ELSE Append(d, s[Len(s)])

\* the keys a mapping for the shape can have: the keys of the shape, in
\* camel case when camelize_keys is set
ExternalKeys(self, camelize_keys) ==
    [i \in 1..Len(self.types.keys) |->
       IF camelize_keys THEN camelize(self.types.keys[i], FALSE)
       ELSE self.types.keys[i]]

\* the mappings over some of the external keys, each with None or the str of
\* the key as its value
RoundTripMappings(self, camelize_keys) ==
    UNION {{Dict(Filter(Distinct(ExternalKeys(self, camelize_keys)), K),
                 [k \in K |-> IF k \in N THEN None ELSE Str(k)]) :
              N \in SUBSET K} :
             K \in SUBSET Range(ExternalKeys(self, camelize_keys))}

InitRoundTrip ==
    /\ component = "roundtrip"
    /\ GraphIdle /\ CtxIdle /\ ValIdle /\ SerIdle /\ CdIdle
    /\ rt_camelize_keys \in BOOLEAN
    /\ rt_validator \in RoundTripShapes
    /\ rt_value \in RoundTripMappings(rt_validator, rt_camelize_keys)
    /\ rt_transformed = Idle
    /\ rt_json = Idle

NextRoundTrip == ShapeValidatorTransform \/ ShapeValidatorToJSON

SpecRoundTrip == InitRoundTrip /\ [][NextRoundTrip]_vars

\* the camel case forms of the keys of the shape
CamelKeys(self) == {camelize(k, FALSE) : k \in Range(self.types.keys)}

\* tojson(transform(m)) has the camel case forms of the shape's keys as its
\* keys, and under each the value m has for it, None when m has none
RoundTrips ==
    /\ rt_json.kind = "dict"
    /\ Range(rt_json.keys) = CamelKeys(rt_validator)
    /\ \A c \in CamelKeys(rt_validator) :
         rt_json.items[c] = DictGet(rt_value.items, c)

\* a key that underscore gives back from its camel case form
SnakeKey(k) == underscore(camelize(k, FALSE)) = k

----------------------------------------------------------------------------
(* The tojson traversal of objects that reference each other.  Each call   *)
(* in progress holds a JCtx (ctx.py 187-208); the call for a referenced    *)
(* object gets the context JCtx.new derives, with the identity of the      *)
(* referencing object appended to entity_chain.  An object whose identity  *)
(* is in the chain of its context is emitted as a reference marker.        *)

\* the objects that reference each other
MaxObjs == 2

ObjectIds == 1..MaxObjs

\* the depth of calls at which Python raises RecursionError, above the depth
\* a chain of distinct identities can reach
RecursionLimit == MaxObjs + 2

ObjectToken(id) == [kind |-> "object", id |-> id]

RefToken(id) == [kind |-> "ref", id |-> id]

EndToken == [kind |-> "end"]

\* the innermost call, the identity of the object it renders, its chain
TopCall == ser_stack[Len(ser_stack)]

ValueId(ctx) == ctx.fields["value"].id

EntityChain(ctx) == ctx.fields["entity_chain"].items

\* the stack after the innermost call returns, and the status then
Returned == SubSeq(ser_stack, 1, Len(ser_stack) - 1)

StatusAfterReturn == IF Len(ser_stack) = 1 THEN "done" ELSE "running"

\* the call of tojson for the value of ctx, before it looked at the value
Call(ctx) == [ctx |-> ctx, next |-> 0]

\* the object is not in the chain: it is expanded
ToJSONExpand ==
    /\ component = "serialize"
    /\ ser_status = "running"
    /\ TopCall.next = 0
    /\ ValueId(TopCall.ctx) \notin Range(EntityChain(TopCall.ctx))
    /\ ser_output' = Append(ser_output, ObjectToken(ValueId(TopCall.ctx)))
    /\ ser_stack' = [ser_stack EXCEPT ![Len(ser_stack)].next = 1]
    /\ UNCHANGED <<component, nonSerVars, ser_objects, ser_status>>

\* the object is in the chain: a reference marker stands for it
ToJSONMarker ==
    /\ component = "serialize"
    /\ ser_status = "running"
    /\ TopCall.next = 0
    /\ ValueId(TopCall.ctx) \in Range(EntityChain(TopCall.ctx))
    /\ ser_output' = Append(ser_output, RefToken(ValueId(TopCall.ctx)))
    /\ ser_stack' = Returned
    /\ ser_status' = StatusAfterReturn
    /\ UNCHANGED <<component, nonSerVars, ser_objects>>

\* the next reference of the object being expanded: tojson is called on the
\* referenced object with a derived context
ToJSONField ==
    /\ component = "serialize"
    /\ ser_status = "running"
    /\ TopCall.next >= 1
    /\ TopCall.next <= Len(ser_objects[ValueId(TopCall.ctx)])
    /\ IF Len(ser_stack) >= RecursionLimit
       THEN /\ ser_status' = "RecursionError"
            /\ UNCHANGED ser_stack
       ELSE /\ ser_stack' =
                 Append([ser_stack EXCEPT ![Len(ser_stack)].next = @ + 1],
                        Call(JCtxNew(TopCall.ctx,
                               ("value" :>
                                  Ref(ser_objects[ValueId(TopCall.ctx)][TopCall.next]))
                               @@ ("entity_chain" :>
                                  List(Append(EntityChain(TopCall.ctx),
                                              ValueId(TopCall.ctx)))))))
            /\ UNCHANGED ser_status
    /\ UNCHANGED <<component, nonSerVars, ser_objects, ser_output>>

\* every reference of the object was rendered: the call returns
ToJSONReturn ==
    /\ component = "serialize"
    /\ ser_status = "running"
    /\ TopCall.next > Len(ser_objects[ValueId(TopCall.ctx)])
    /\ ser_output' = Append(ser_output, EndToken)
    /\ ser_stack' = Returned
    /\ ser_status' = StatusAfterReturn
    /\ UNCHANGED <<component, nonSerVars, ser_objects>>

\* the identities of S in ascending order
RECURSIVE Ascending(_)
Ascending(S) ==
    IF S = {} THEN <<>>
    ELSE LET m == CHOOSE x \in S : \A y \in S : x <= y
         IN <<m>> \o Ascending(S \ {m})

Reversed(seq) == [i \in 1..Len(seq) |-> seq[Len(seq) + 1 - i]]

\* the objects, each referencing some of the objects, in ascending or in
\* descending order of identity
ObjectGraphs ==
    [ObjectIds ->
       UNION {{Ascending(S), Reversed(Ascending(S))} : S \in SUBSET ObjectIds}]

\* tojson of one of the objects, with the context of a top call
InitSerialize ==
    /\ component = "serialize"
    /\ GraphIdle /\ CtxIdle /\ ValIdle /\ RtIdle /\ CdIdle
    /\ ser_objects \in ObjectGraphs
    /\ \E root \in ObjectIds :
         ser_stack =
           <<Call(Construct("JCtx",
                    ("value" :> Ref(root))
                    @@ ("jconf" :> BaseValue("JCtx", "jconf"))))>>
    /\ ser_output = <<>>
    /\ ser_status = "running"

NextSerialize ==
    \/ ToJSONExpand
    \/ ToJSONMarker
    \/ ToJSONField
    \/ ToJSONReturn

\* the calls are synchronous: a call in progress takes its next step
SpecSerialize ==
    InitSerialize /\ [][NextSerialize]_vars /\ WF_vars(NextSerialize)

\* no identity is twice in the sequence
NoDuplicates(seq) == \A i, j \in DOMAIN seq : i # j => seq[i] # seq[j]

\* C10: serializing objects that reference each other in a cycle
\* terminates: no call runs into the recursion limit, the entity chain of
\* every call in progress holds the identities of the objects being
\* expanded around it, each once, so the calls are never deeper than the
\* number of objects plus the call that emits a marker, and the traversal
\* finishes.
C10_CycleTerminates ==
    /\ [](/\ ser_status # "RecursionError"
          /\ Len(ser_stack) <= MaxObjs + 1
          /\ \A d \in DOMAIN ser_stack :
               /\ NoDuplicates(EntityChain(ser_stack[d].ctx))
               /\ EntityChain(ser_stack[d].ctx) =
                    [e \in 1..(d - 1) |-> ValueId(ser_stack[e].ctx)])
    /\ <>(ser_status = "done")

\* C10 witness: A references B, B references A; tojson of A finished with
\* A expanded, B expanded inside it and a marker for A inside B.
C10_Witness ==
    /\ component = "serialize"
    /\ ser_objects = (1 :> <<2>>) @@ (2 :> <<1>>)
    /\ ser_status = "done"
    /\ ser_output =
         <<ObjectToken(1), ObjectToken(2), RefToken(1), EndToken, EndToken>>

----------------------------------------------------------------------------
(* The class definition: cdef.py.  A Cdef is the function from its         *)
(* attribute names to their values; a field name is the sequence of its    *)
(* characters.  The back references JField.cdef and Fdef._cdef are left    *)
(* out: no operation here reads them.                                      *)

DeleteRule(name) == [kind |-> "DeleteRule", name |-> name]

FieldStorage(name) == [kind |-> "FieldStorage", name |-> name]

\* the attributes of an Fdef that Cdef reads
Fdef(primary, usage, delete_rule, field_storage, foreign_class, foreign_key, requires_operator_assign) ==
    [_primary |-> primary,
     _usage |-> usage,
     _delete_rule |-> delete_rule,
     _field_storage |-> field_storage,
     foreign_class |-> foreign_class,
     foreign_key |-> foreign_key,
     _requires_operator_assign |-> requires_operator_assign]

\* a Types object with its field definition
Types(fdef) == [kind |-> "Types", fdef |-> fdef]

\* rtypes(field.type): the Types object of a type annotation
rtypes(type) == Types(type.fdef)

\* dataclasses.MISSING
MISSING == [kind |-> "MISSING"]

\* JField(cdef=self, name=name, default=default, types=types)
JField(name, default, types) ==
    [name |-> name, default |-> default, types |-> types]

\* JField.json_name: the field name, in camel case when the configuration
\* camelizes JSON keys
json_name(jfield, jconf) ==
    IF jconf.camelize_json_keys THEN camelize(jfield.name, FALSE)
    ELSE jfield.name

\* JField.foreign_class: the class the field's definition refers to
foreign_class(jfield) == jfield.types.fdef.foreign_class

\* Cdef.__init__, lines 39-57: the attributes before the loop
NewCdef(cls) ==
    [_ref_resolved |-> FALSE,
     _name |-> cls.name,
     _list_fields |-> <<>>,
     _dict_fields |-> EmptyDict,
     _primary_field |-> None,
     _created_at_field |-> None,
     _updated_at_field |-> None,
     _deleted_at_field |-> None,
     _deny_fields |-> <<>>,
     _nullify_fields |-> <<>>,
     _cascade_fields |-> <<>>,
     _field_names |-> <<>>,
     _camelized_field_names |-> <<>>,
     _reference_names |-> <<>>,
     _camelized_reference_names |-> <<>>,
     _assign_operator_fields |-> <<>>,
     _tuple_fields |-> <<>>]

\* lines 61-71: the types and the default of a declared field
TypesOfField(field) ==
    IF field.default.kind = "Types" THEN field.default ELSE rtypes(field.type)

DefaultOfField(field) ==
    IF field.default.kind = "Types" THEN None
    ELSE IF field.default = field.default_factory THEN None
    ELSE field.default

\* a loop body that keeps the first field of each usage
AddField_FirstWins(self, jconf, field) ==
    LET name == field.name
        types == TypesOfField(field)
        jfield == JField(name, DefaultOfField(field), types)
        rule == types.fdef._delete_rule
        usage == types.fdef._usage
    IN [self EXCEPT
          !._field_names = Append(@, name),
          !._camelized_field_names = Append(@, json_name(jfield, jconf)),
          !._list_fields = Append(@, jfield),
          !._dict_fields = DictSet(@, name, jfield),
          !._primary_field =
              IF types.fdef._primary /\ @ = None THEN jfield ELSE @,
          !._created_at_field =
              IF usage = Str("created_at") /\ @ = None THEN jfield ELSE @,
          !._updated_at_field =
              IF usage = Str("updated_at") /\ @ = None THEN jfield ELSE @,
          !._deleted_at_field =
              IF usage = Str("deleted_at") /\ @ = None THEN jfield ELSE @,
          !._deny_fields = IF rule = DeleteRule("DENY") THEN Append(@, jfield) ELSE @,
          !._nullify_fields =
              IF rule = DeleteRule("NULLIFY") THEN Append(@, jfield) ELSE @,
          !._cascade_fields =
              IF rule = DeleteRule("CASCADE") THEN Append(@, jfield) ELSE @,
          !._assign_operator_fields =
              IF types.fdef._requires_operator_assign THEN Append(@, jfield) ELSE @]

\* lines 59-90: one turn of the loop over the declared fields
AddField(self, jconf, field) ==
    LET name == field.name
        types == TypesOfField(field)
        jfield == JField(name, DefaultOfField(field), types)
        rule == types.fdef._delete_rule
        usage == types.fdef._usage
    IN [self EXCEPT
          !._field_names = Append(@, name),
          !._camelized_field_names = Append(@, json_name(jfield, jconf)),
          !._list_fields = Append(@, jfield),
          !._dict_fields = DictSet(@, name, jfield),
          !._primary_field = IF types.fdef._primary THEN jfield ELSE @,
          !._created_at_field = IF usage = Str("created_at") THEN jfield ELSE @,
          !._updated_at_field = IF usage = Str("updated_at") THEN jfield ELSE @,
          !._deleted_at_field = IF usage = Str("deleted_at") THEN jfield ELSE @,
          !._deny_fields = IF rule = DeleteRule("DENY") THEN Append(@, jfield) ELSE @,
          !._nullify_fields =
              IF rule = DeleteRule("NULLIFY") THEN Append(@, jfield) ELSE @,
          !._cascade_fields =
              IF rule = DeleteRule("CASCADE") THEN Append(@, jfield) ELSE @,
          !._assign_operator_fields =
              IF types.fdef._requires_operator_assign THEN Append(@, jfield) ELSE @]

\* lines 58-90: the loop from the i-th declared field on
RECURSIVE AddFields(_, _, _, _)
AddFields(self, jconf, fields, i) ==
    IF i > Len(fields) THEN self
    ELSE AddFields(AddField(self, jconf, fields[i]), jconf, fields, i + 1)

\* Cdef.__init__
CdefInit(cls, jconf) ==
    LET self == AddFields(NewCdef(cls), jconf, cls.fields, 1)
    IN [self EXCEPT !._tuple_fields = self._list_fields]

NotConstructed == [kind |-> "not constructed"]

\* Cdef(cls, jconf); line 41 stores the class in the configuration
Cdef ==
    /\ component = "cdef"
    /\ cd_self = NotConstructed
    /\ cd_self' = CdefInit(cd_cls, cd_jconf)
    /\ cd_jconf' = [cd_jconf EXCEPT !._cls = cd_cls.name]
    /\ cd_ret' = [call |-> "__init__", ret |-> None]
    /\ UNCHANGED <<component, nonCdVars, cd_cls, cd_resolves>>

\* what a default key transformer appends to the name of a field
ReferenceSuffix == <<"_", "a">>

\* jconf.key_transformer(jfield): the name of the field with the reference
\* suffix
key_transformer(jconf, jfield) == jfield.name \o ReferenceSuffix

\* set(list)
PySet(list) == Range(list)

\* a loop of _resolve_ref_names that takes a reference name from every field
\* that is not embedded
RECURSIVE ResolveLoop_AnyKey(_, _, _)
ResolveLoop_AnyKey(self, jconf, i) ==
    IF i > Len(self._tuple_fields) THEN self
    ELSE LET jfield == self._tuple_fields[i]
         IN IF jfield.types.fdef._field_storage # FieldStorage("EMBEDDED")
            THEN ResolveLoop_AnyKey(
                   [self EXCEPT
                      !._reference_names =
                          Append(@, key_transformer(jconf, jfield)),
                      !._camelized_reference_names =
                          IF jconf.camelize_json_keys
                          THEN Append(@, camelize(key_transformer(jconf, jfield),
                                                  FALSE))
                          ELSE @],
                   jconf, i + 1)
            ELSE ResolveLoop_AnyKey(self, jconf, i + 1)

\* Cdef._resolve_ref_names, lines 99-105: the loop from the i-th field on
RECURSIVE ResolveLoop(_, _, _)
ResolveLoop(self, jconf, i) ==
    IF i > Len(self._tuple_fields) THEN self
    ELSE LET jfield == self._tuple_fields[i]
         IN IF jfield.types.fdef._field_storage = FieldStorage("LOCAL_KEY")
            THEN ResolveLoop(
                   [self EXCEPT
                      !._reference_names =
                          Append(@, key_transformer(jconf, jfield)),
                      !._camelized_reference_names =
                          IF jconf.camelize_json_keys
                          THEN Append(@, camelize(key_transformer(jconf, jfield),
                                                  FALSE))
                          ELSE @],
                   jconf, i + 1)
            ELSE ResolveLoop(self, jconf, i + 1)

\* Cdef._resolve_ref_names
ResolveRefNames(self, jconf) ==
    LET resolved == ResolveLoop(self, jconf, 1)
    IN DictSet(
         DictSet(resolved, "_available_names",
                 PySet(resolved._field_names \o resolved._camelized_field_names
                       \o resolved._reference_names
                       \o resolved._camelized_reference_names)),
         "_update_names",
         PySet(resolved._field_names \o resolved._reference_names))

\* a _resolve_ref_if_needed that does not look at _ref_resolved
ResolveRefIfNeeded_Always(self, jconf) ==
    [self |-> [ResolveRefNames(self, jconf) EXCEPT !["_ref_resolved"] = TRUE],
     ran |-> 1]

\* Cdef._resolve_ref_if_needed: the Cdef after the call, and how many times
\* it ran _resolve_ref_names
ResolveRefIfNeeded(self, jconf) ==
    IF self._ref_resolved = FALSE
    THEN [self |-> [ResolveRefNames(self, jconf) EXCEPT !["_ref_resolved"] = TRUE],
          ran |-> 1]
    ELSE [self |-> self, ran |-> 0]

\* the property Cdef.available_names
available_names ==
    /\ component = "cdef"
    /\ cd_self # NotConstructed
    /\ LET r == ResolveRefIfNeeded(cd_self, cd_jconf)
       IN /\ cd_self' = r.self
          /\ cd_resolves' = cd_resolves + r.ran
          /\ cd_ret' = [call |-> "available_names",
                        ret |-> r.self["_available_names"]]
    /\ UNCHANGED <<component, nonCdVars, cd_cls, cd_jconf>>

\* the property Cdef.update_names
update_names ==
    /\ component = "cdef"
    /\ cd_self # NotConstructed
    /\ LET r == ResolveRefIfNeeded(cd_self, cd_jconf)
       IN /\ cd_self' = r.self
          /\ cd_resolves' = cd_resolves + r.ran
          /\ cd_ret' = [call |-> "update_names",
                        ret |-> r.self["_update_names"]]
    /\ UNCHANGED <<component, nonCdVars, cd_cls, cd_jconf>>

\* raise ValueError(f'no field named {name} in class definition')
ValueError(name) ==
    [kind |-> "ValueError",
     format |-> "no field named {name} in class definition",
     name |-> name]

\* a field_named that returns what dict.get gives
FieldNamed_Get(self, name) == DictGet(self._dict_fields, name)

\* Cdef.field_named: what it returns or raises
FieldNamed(self, name) ==
    IF ~Truthy(DictGet(self._dict_fields, name))
    THEN ValueError(name)
    ELSE self._dict_fields[name]

field_named(name) ==
    /\ component = "cdef"
    /\ cd_self # NotConstructed
    /\ cd_ret' = [call |-> "field_named", name |-> name,
                  ret |-> FieldNamed(cd_self, name)]
    /\ UNCHANGED <<component, nonCdVars, cd_cls, cd_jconf, cd_self, cd_resolves>>

\* Cdef.rfield: the loop from the i-th field on; a field of the foreign
\* class is compared by name when fname is given, by foreign key only when
\* fname is None
RECURSIVE RfieldLoop(_, _, _, _, _)
RfieldLoop(self, fcls, fname, fkey, i) ==
    IF i > Len(self._tuple_fields) THEN None
    ELSE LET field == self._tuple_fields[i]
         IN IF /\ foreign_class(field) = fcls
               /\ IF fname # None
                  THEN Str(field.name) = fname
                  ELSE /\ fkey # None
                       /\ field.types.fdef.foreign_key = fkey
            THEN field
            ELSE RfieldLoop(self, fcls, fname, fkey, i + 1)

\* the parameters of the function that line 216 makes a property
RfieldParameters == <<"self", "fcls", "fname", "fkey">>

\* @property: the expression cdef.rfield calls the function with self alone,
\* which raises TypeError for a function of more parameters before its body
\* runs and before the arguments of the call are looked at
PropertyAccess(parameters, body) ==
    IF Len(parameters) > 1 THEN TypeError ELSE body

\* cdef.rfield(fcls, fname, fkey): what it returns or raises
Rfield(self, fcls, fname, fkey) ==
    PropertyAccess(RfieldParameters, RfieldLoop(self, fcls, fname, fkey, 1))

rfield(fcls, fname, fkey) ==
    /\ component = "cdef"
    /\ cd_self # NotConstructed
    /\ cd_ret' = [call |-> "rfield", fcls |-> fcls, fname |-> fname,
                  fkey |-> fkey,
                  ret |-> Rfield(cd_self, fcls, fname, fkey)]
    /\ UNCHANGED <<component, nonCdVars, cd_cls, cd_jconf, cd_self, cd_resolves>>

\* the properties that return an attribute set by __init__
Properties ==
    {"name", "fields", "primary_field", "created_at_field", "updated_at_field",
     "deleted_at_field", "deny_fields", "nullify_fields", "cascade_fields",
     "assign_operator_fields"}

AttributeOf(property) ==
    IF property = "fields" THEN "_tuple_fields" ELSE "_" \o property

GetProperty(self, property) == self[AttributeOf(property)]

property(p) ==
    /\ component = "cdef"
    /\ cd_self # NotConstructed
    /\ cd_ret' = [call |-> p, ret |-> GetProperty(cd_self, p)]
    /\ UNCHANGED <<component, nonCdVars, cd_cls, cd_jconf, cd_self, cd_resolves>>

\* the most fields a declared class has
MaxDeclFields == 2

\* the names of the declared fields, by position, and one more name
FieldNames ==
    << <<"a">>, <<"a", "_", "a">>, <<"a", "a">>, <<"a", "_", "a", "_", "a">> >>

ForeignClasses == {Type("F"), Type("G")}

ForeignKeys == {Str(<<"a">>), Str(<<"a", "a">>)}

\* the field definition of a field declared with a plain type
DefaultFdef ==
    Fdef(FALSE, None, None, FieldStorage("EMBEDDED"), None, None, FALSE)

\* field definitions that differ in primary, usage and operator assignment
UsageFdefs ==
    {Fdef(p, u, None, FieldStorage("EMBEDDED"), None, None, FALSE) :
       p \in BOOLEAN,
       u \in {None, Str("created_at"), Str("updated_at"), Str("deleted_at")}}
    \cup {Fdef(FALSE, None, None, FieldStorage("EMBEDDED"), None, None, TRUE)}

\* field definitions that differ in storage
StorageFdefs ==
    {Fdef(FALSE, None, None, FieldStorage(st), None, None, FALSE) :
       st \in {"EMBEDDED", "LOCAL_KEY", "FOREIGN_KEY"}}

\* field definitions that differ in delete rule, of fields that hold a key
\* and of fields that hold the value
RuleFdefs ==
    {Fdef(FALSE, None, r, FieldStorage(st), None, None, FALSE) :
       r \in {None, DeleteRule("DENY"), DeleteRule("NULLIFY"), DeleteRule("CASCADE")},
       st \in {"EMBEDDED", "LOCAL_KEY"}}

\* field definitions that differ in the class they refer to: links that
\* hold the key, and links held by a key of the other class
ForeignFdefs ==
    {DefaultFdef}
    \cup {Fdef(FALSE, None, None, FieldStorage("LOCAL_KEY"), c, None, FALSE) :
            c \in ForeignClasses}
    \cup {Fdef(FALSE, None, None, FieldStorage("FOREIGN_KEY"), c, k, FALSE) :
            c \in ForeignClasses, k \in ForeignKeys}

\* a dataclass field declared as `name: T = types...`, as `name: T`, or as
\* `name: T = 'x'`
DeclaredField(name, style, fdef) ==
    [name |-> name,
     type |-> [kind |-> "annotation",
               fdef |-> IF style = "types" THEN DefaultFdef ELSE fdef],
     default |-> CASE style = "types" -> Types(fdef)
                   [] style = "annotation" -> MISSING
                   [] style = "literal" -> Str(<<"x">>),
     default_factory |-> MISSING]

\* the ways to declare a field with a types default, one family of field
\* definitions at a time
PlainDeclarations ==
    {{[style |-> "types", fdef |-> f] : f \in F} :
       F \in {UsageFdefs, RuleFdefs, ForeignFdefs}}

\* the ways to declare a field that decide the names of the class: the
\* storage of the field, and each style with two of the definitions
NameDeclarations ==
    {{[style |-> "types", fdef |-> f] : f \in StorageFdefs},
     {[style |-> st, fdef |-> f] :
        st \in {"types", "annotation", "literal"},
        f \in {DefaultFdef,
               Fdef(TRUE, None, None, FieldStorage("EMBEDDED"), None, None,
                    FALSE)}}}

\* the declared classes of n fields, all declared in ways of the family D
DeclaredClasses(D, n) ==
    {[name |-> "A",
      fields |-> [i \in 1..n |->
                    DeclaredField(FieldNames[i], d[i].style, d[i].fdef)]] :
       d \in [1..n -> D]}

\* the class configurations: keys are camelized unless configured otherwise
Config(camelize_json_keys) ==
    [camelize_json_keys |-> camelize_json_keys,
     key_transformer |-> "reference suffix",
     _cls |-> None]

\* the names field_named is asked for
NameArgs == {FieldNames[i] : i \in 1..(MaxDeclFields + 1)}

InitCdef ==
    /\ component = "cdef"
    /\ GraphIdle /\ CtxIdle /\ ValIdle /\ RtIdle /\ SerIdle
    /\ \/ /\ \E D \in PlainDeclarations, n \in 0..MaxDeclFields :
                 cd_cls \in DeclaredClasses(D, n)
          /\ cd_jconf = Config(TRUE)
       \/ /\ \E D \in NameDeclarations, n \in 0..MaxDeclFields :
                 cd_cls \in DeclaredClasses(D, n)
          /\ cd_jconf \in {Config(b) : b \in BOOLEAN}
    /\ cd_self = NotConstructed
    /\ cd_ret = None
    /\ cd_resolves = 0

NextCdef ==
    \/ Cdef
    \/ available_names
    \/ update_names
    \/ \E name \in NameArgs : field_named(name)
    \/ \E fcls \in ForeignClasses,
          fname \in {None, Str(FieldNames[1]), Str(FieldNames[2])},
          fkey \in {None} \cup ForeignKeys :
         rfield(fcls, fname, fkey)
    \/ \E p \in Properties : property(p)

SpecCdef == InitCdef /\ [][NextCdef]_vars

----------------------------------------------------------------------------
\* whether cd_ret holds the return of the call named
Called(call) == "call" \in DOMAIN cd_ret /\ cd_ret.call = call

Constructed == component = "cdef" /\ cd_self # NotConstructed

Resolved == Constructed /\ cd_self._ref_resolved

\* C11: over any sequence of accesses to available_names and update_names,
\* _resolve_ref_names runs at most once; once it has run, no step changes
\* the two sets, and every access returns the set that is stored, so every
\* access to available_names returns the same set and every access to
\* update_names returns the same set.
C11_NamesResolvedOnce ==
    /\ [](component = "cdef" => cd_resolves <= 1)
    /\ [](/\ Called("available_names") =>
               Resolved /\ cd_ret.ret = cd_self["_available_names"]
          /\ Called("update_names") =>
               Resolved /\ cd_ret.ret = cd_self["_update_names"])
    /\ [][Resolved =>
            /\ cd_resolves' = cd_resolves
            /\ cd_self'["_available_names"] = cd_self["_available_names"]
            /\ cd_self'["_update_names"] = cd_self["_update_names"]]_vars

\* C11 witness: a class with a field that holds a key was resolved once and
\* update_names has returned its two names.
C11_Witness ==
    /\ Resolved
    /\ cd_resolves = 1
    /\ Called("update_names")
    /\ Len(cd_self._reference_names) = 1
    /\ Cardinality(cd_ret.ret) = 2

\* the declared fields of the class, as the constructor reads them
DeclaredJFields ==
    {JField(f.name, DefaultOfField(f), TypesOfField(f)) :
       f \in Range(cd_cls.fields)}

RawFieldNames == {f.name : f \in DeclaredJFields}

JSONFieldNames == {json_name(f, cd_jconf) : f \in DeclaredJFields}

LocalKeyFields ==
    {f \in DeclaredJFields :
       f.types.fdef._field_storage = FieldStorage("LOCAL_KEY")}

RawReferenceNames == {key_transformer(cd_jconf, f) : f \in LocalKeyFields}

JSONReferenceNames ==
    IF cd_jconf.camelize_json_keys
    THEN {camelize(n, FALSE) : n \in RawReferenceNames}
    ELSE {}

\* C12: once the names are resolved, available_names is the union of the
\* field names, the JSON field names, the reference names and the camelized
\* reference names, and update_names is the union of the field names and
\* the reference names, where the reference names are key_transformer(f) of
\* exactly the fields of local-key storage and are camelized only when the
\* configuration camelizes; update_names is a subset of available_names.
C12_NamesAreUnions ==
    Resolved =>
      /\ cd_self["_available_names"] =
           RawFieldNames \cup JSONFieldNames \cup RawReferenceNames
             \cup JSONReferenceNames
      /\ cd_self["_update_names"] = RawFieldNames \cup RawReferenceNames
      /\ cd_self["_update_names"] \subseteq cd_self["_available_names"]
      /\ Range(cd_self._reference_names) = RawReferenceNames
      /\ Called("available_names") =>
           cd_ret.ret = cd_self["_available_names"]
      /\ Called("update_names") => cd_ret.ret = cd_self["_update_names"]

\* C12 witness: of the fields a (key held by the other class) and a_a (key
\* held here) with camelized keys, available_names has returned a, aA, a_a,
\* a_a_a and aAA.
C12_Witness ==
    /\ Resolved
    /\ cd_jconf.camelize_json_keys
    /\ Len(cd_cls.fields) = 2
    /\ TypesOfField(cd_cls.fields[1]).fdef._field_storage
         = FieldStorage("FOREIGN_KEY")
    /\ TypesOfField(cd_cls.fields[2]).fdef._field_storage
         = FieldStorage("LOCAL_KEY")
    /\ Called("available_names")
    /\ cd_ret.ret = {<<"a">>, <<"a", "A">>, <<"a", "_", "a">>,
                     <<"a", "_", "a", "_", "a">>, <<"a", "A", "A">>}
    /\ cd_self["_update_names"] =
         {<<"a">>, <<"a", "_", "a">>, <<"a", "_", "a", "_", "a">>}

\* the declared fields, in declaration order, that are among those selected
RECURSIVE SelectFields(_, _, _)
SelectFields(fields, selected, i) ==
    IF i > Len(fields) THEN <<>>
    ELSE LET f == JField(fields[i].name, DefaultOfField(fields[i]),
                         TypesOfField(fields[i]))
         IN (IF f \in selected THEN <<f>> ELSE <<>>)
              \o SelectFields(fields, selected, i + 1)

\* a field that links to another object, by a key held here or there
ReferenceStorage(f) == f.types.fdef._field_storage # FieldStorage("EMBEDDED")

\* the reference-storage fields that declared the delete rule named
RuleFields(rule) ==
    SelectFields(cd_cls.fields,
                 {f \in DeclaredJFields :
                    /\ ReferenceStorage(f)
                    /\ f.types.fdef._delete_rule = DeleteRule(rule)},
                 1)

\* C13: in a constructed Cdef the deny, nullify and cascade buckets are
\* pairwise disjoint, each holds, in declaration order, exactly the
\* reference-storage fields that declared its delete rule, and no other
\* field is in any bucket.
C13_BucketsPartitionReferenceFields ==
    Constructed =>
      /\ cd_self._deny_fields = RuleFields("DENY")
      /\ cd_self._nullify_fields = RuleFields("NULLIFY")
      /\ cd_self._cascade_fields = RuleFields("CASCADE")
      /\ Range(cd_self._deny_fields) \cap Range(cd_self._nullify_fields) = {}
      /\ Range(cd_self._deny_fields) \cap Range(cd_self._cascade_fields) = {}
      /\ Range(cd_self._nullify_fields) \cap Range(cd_self._cascade_fields) = {}
      /\ Called("deny_fields") => cd_ret.ret = RuleFields("DENY")
      /\ Called("nullify_fields") => cd_ret.ret = RuleFields("NULLIFY")
      /\ Called("cascade_fields") => cd_ret.ret = RuleFields("CASCADE")

\* the last of a sequence of fields, None when there is none
LastOrNone(fields) == IF fields = <<>> THEN None ELSE fields[Len(fields)]

\* the declared fields that claim to be the primary field
PrimaryFields ==
    SelectFields(cd_cls.fields,
                 {f \in DeclaredJFields : f.types.fdef._primary}, 1)

\* the declared fields that claim the usage named
UsageFields(usage) ==
    SelectFields(cd_cls.fields,
                 {f \in DeclaredJFields : f.types.fdef._usage = Str(usage)}, 1)

\* C14: the constructor succeeds for every class, fields that claim the
\* same usage included; primary_field, created_at_field, updated_at_field
\* and deleted_at_field each hold one field or none: the last declared of
\* the fields that claim the usage, none when no field claims it.
C14_LastDeclaredUsageWins ==
    /\ component = "cdef" /\ cd_self = NotConstructed => ENABLED Cdef
    /\ Constructed =>
         /\ cd_self._primary_field = LastOrNone(PrimaryFields)
         /\ cd_self._created_at_field = LastOrNone(UsageFields("created_at"))
         /\ cd_self._updated_at_field = LastOrNone(UsageFields("updated_at"))
         /\ cd_self._deleted_at_field = LastOrNone(UsageFields("deleted_at"))
         /\ \A p \in {"primary_field", "created_at_field", "updated_at_field",
                      "deleted_at_field"} :
              /\ cd_self[AttributeOf(p)] \in {None} \cup DeclaredJFields
              /\ Called(p) => cd_ret.ret = cd_self[AttributeOf(p)]

\* C14 witness: both fields of the class claim created_at, and
\* created_at_field has returned the second.
C14_Witness ==
    /\ Constructed
    /\ Len(UsageFields("created_at")) = 2
    /\ Called("created_at_field")
    /\ cd_ret.ret.name = FieldNames[2]

\* whether the message of the error is formatted with the value named
MessageIdentifies(err, what) == what \in DOMAIN err \ {"kind", "format"}

\* C15 as stated: field_named(name) returns the field declared under name,
\* and for a name the class does not declare it fails with an error that
\* identifies both the class and the requested name.
C15_NotFoundIdentifiesClassAndName ==
    Constructed /\ Called("field_named") =>
      IF cd_ret.name \in RawFieldNames
      THEN cd_ret.ret \in DeclaredJFields /\ cd_ret.ret.name = cd_ret.name
      ELSE /\ cd_ret.ret.kind = "ValueError"
           /\ MessageIdentifies(cd_ret.ret, "name")
           /\ MessageIdentifies(cd_ret.ret, "class")

\* C15: field_named(name) returns the field declared under name, never a
\* field of another name, and for a name the class does not declare it
\* fails with a ValueError whose message is formatted with the requested
\* name and nothing else.
C15_FieldNamedOrValueError ==
    Constructed /\ Called("field_named") =>
      IF cd_ret.name \in RawFieldNames
      THEN cd_ret.ret \in DeclaredJFields /\ cd_ret.ret.name = cd_ret.name
      ELSE /\ cd_ret.ret.kind = "ValueError"
           /\ \A what \in {"name", "class"} :
                MessageIdentifies(cd_ret.ret, what) <=> what = "name"
           /\ cd_ret.ret.name = cd_ret.name

\* C15 witness: a class of two fields was asked for a third name and
\* field_named raised the ValueError of that name.
C15_Witness ==
    /\ Constructed
    /\ Len(cd_cls.fields) = 2
    /\ Called("field_named")
    /\ cd_ret.name = FieldNames[3]
    /\ cd_ret.ret = ValueError(FieldNames[3])

\* the declared fields whose foreign class is fcls and that match fname by
\* name or fkey by foreign key, in declaration order
ForeignFields(fcls, fname, fkey) ==
    SelectFields(cd_cls.fields,
                 {f \in DeclaredJFields :
                    /\ foreign_class(f) = fcls
                    /\ \/ fname # None /\ Str(f.name) = fname
                       \/ fkey # None /\ f.types.fdef.foreign_key = fkey},
                 1)

Init == InitGraph \/ InitCtx \/ InitValidate \/ InitRoundTrip \/ InitSerialize
        \/ InitCdef

Next == NextGraph \/ NextCtx \/ NextValidate \/ NextRoundTrip \/ NextSerialize
        \/ NextCdef

Spec == Init /\ [][Next]_vars

====
